---- MODULE Spec2Model ----
(***************************************************************************)
(* Model of scripts/placsp_sync.py: the PLACSP synchroniser.               *)
(*                                                                         *)
(* Text is a sequence of one-character strings.  The labels that the       *)
(* regular expressions of parse_entry look for are single tokens of the    *)
(* summary text (LblIdent, LblEstado, ...), everything else is a           *)
(* character.  Python's None is the text None below.  The labels are       *)
(* written without their accents and match in one spelling only (the       *)
(* patterns of the script are case-insensitive).  total_raw, which main()  *)
(* only prints, is not part of the state.                                  *)
(***************************************************************************)
EXTENDS Integers, Sequences, FiniteSets

(***************************************************************************)
(* Bounds of the model.                                                    *)
(***************************************************************************)
\* entries one feed document of an archive yields at most
MaxEntries == 2

(***************************************************************************)
(* Text helpers (str, re).                                                 *)
(***************************************************************************)
NoneTok == "<None>"
None == <<NoneTok>>

\* Python truthiness of a str-or-None value
Truthy(x) == x # None /\ Len(x) > 0

\* a or b   on str-or-None values
PyOr(a, b) == IF Truthy(a) THEN a ELSE b

LblIdent == "Identificador:"
LblOrgano == "Organo de Contratacion:"
LblEstado == "Estado:"
LblLimite == "Fecha Limite de Presentacion:"

\* \s of the re module, over the characters of the model
IsSpace(c) == c \in {" ", "\n", "\t"}

Digits == <<"0", "1", "2", "3", "4", "5", "6", "7", "8", "9">>
IsDigit(c) == \E i \in 1..10 : Digits[i] = c
DigitVal(c) == (CHOOSE i \in 1..10 : Digits[i] = c) - 1

\* [^\n<]
ClassLine(c) == c \notin {"\n", "<"}
\* [0-9/\-: ]
ClassDate(c) == IsDigit(c) \/ c \in {"/", "-", ":", " "}

UpperCase == <<"A", "B", "C", "D", "E", "F", "G", "H", "I", "J", "K", "L", "M",
               "N", "O", "P", "Q", "R", "S", "T", "U", "V", "W", "X", "Y", "Z">>
LowerCase == <<"a", "b", "c", "d", "e", "f", "g", "h", "i", "j", "k", "l", "m",
               "n", "o", "p", "q", "r", "s", "t", "u", "v", "w", "x", "y", "z">>

\* str.lower()
LowerChar(c) ==
    IF \E i \in 1..26 : UpperCase[i] = c
    THEN LowerCase[CHOOSE i \in 1..26 : UpperCase[i] = c]
    ELSE c
Lower(s) == [i \in 1..Len(s) |-> LowerChar(s[i])]

\* sub in s
Contains(s, sub) ==
    \E i \in 1..(Len(s) - Len(sub) + 1) : SubSeq(s, i, i + Len(sub) - 1) = sub

\* str.strip()
Strip(s) ==
    LET keep == {i \in 1..Len(s) : ~IsSpace(s[i])}
    IN  IF keep = {} THEN <<>>
        ELSE LET lo == CHOOSE i \in keep : \A j \in keep : i <= j
                 hi == CHOOSE i \in keep : \A j \in keep : j <= i
             IN  SubSeq(s, lo, hi)

\* length of the longest run of characters of s from position j on that
\* are all white space (WsRun) or all of the class (the two RunX below)
WsRun(s, j) ==
    CHOOSE n \in 0..(Len(s) - j + 1) :
        /\ \A k \in j..(j + n - 1) : IsSpace(s[k])
        /\ (j + n <= Len(s) => ~IsSpace(s[j + n]))
RunLine(s, j) ==
    CHOOSE n \in 0..(Len(s) - j + 1) :
        /\ \A k \in j..(j + n - 1) : ClassLine(s[k])
        /\ (j + n <= Len(s) => ~ClassLine(s[j + n]))
RunDate(s, j) ==
    CHOOSE n \in 0..(Len(s) - j + 1) :
        /\ \A k \in j..(j + n - 1) : ClassDate(s[k])
        /\ (j + n <= Len(s) => ~ClassDate(s[j + n]))

\* re.search(label \s* ( class+ )) anchored at the label at position i:
\* \s* is greedy and gives characters back until the group can start.
\* The result is the start of the group, 0 when the match fails here.
GroupStartLine(s, i) ==
    LET n == WsRun(s, i + 1)
        ks == {k \in 0..n : i + 1 + k <= Len(s) /\ ClassLine(s[i + 1 + k])}
    IN  IF ks = {} THEN 0
        ELSE i + 1 + (CHOOSE k \in ks : \A l \in ks : l <= k)
GroupStartDate(s, i) ==
    LET n == WsRun(s, i + 1)
        ks == {k \in 0..n : i + 1 + k <= Len(s) /\ ClassDate(s[i + 1 + k])}
    IN  IF ks = {} THEN 0
        ELSE i + 1 + (CHOOSE k \in ks : \A l \in ks : l <= k)

\* rex(r"<label>\s*([^\n<]+)"): the leftmost match, its group stripped
RexLine(summary, label) ==
    LET hits == {i \in 1..Len(summary) :
                    summary[i] = label /\ GroupStartLine(summary, i) # 0}
    IN  IF hits = {} THEN <<>>
        ELSE LET i == CHOOSE h \in hits : \A g \in hits : h <= g
                 st == GroupStartLine(summary, i)
             IN  Strip(SubSeq(summary, st, st + RunLine(summary, st) - 1))

\* rex(r"<label>\s*([0-9/\-: ]+)")
RexDate(summary, label) ==
    LET hits == {i \in 1..Len(summary) :
                    summary[i] = label /\ GroupStartDate(summary, i) # 0}
    IN  IF hits = {} THEN <<>>
        ELSE LET i == CHOOSE h \in hits : \A g \in hits : h <= g
                 st == GroupStartDate(summary, i)
             IN  Strip(SubSeq(summary, st, st + RunDate(summary, st) - 1))

\* re.findall(r"\d+", s): the maximal runs of digits, left to right
DigitRunStarts(s) ==
    {i \in 1..Len(s) : IsDigit(s[i]) /\ (i = 1 \/ ~IsDigit(s[i - 1]))}
DigitRunEnd(s, i) ==
    CHOOSE j \in i..Len(s) :
        /\ \A k \in i..j : IsDigit(s[k])
        /\ (j < Len(s) => ~IsDigit(s[j + 1]))
\* the k-th run (k >= 1) as text
DigitRun(s, k) ==
    LET starts == DigitRunStarts(s)
        i == CHOOSE a \in starts : Cardinality({b \in starts : b < a}) = k - 1
    IN  SubSeq(s, i, DigitRunEnd(s, i))

\* int(text of digits)
RECURSIVE ToInt(_)
ToInt(ds) ==
    IF Len(ds) = 0 THEN 0
    ELSE 10 * ToInt(SubSeq(ds, 1, Len(ds) - 1)) + DigitVal(ds[Len(ds)])

\* str(n) for n >= 0
RECURSIVE IntToText(_)
IntToText(n) ==
    IF n < 10 THEN <<Digits[n + 1]>>
    ELSE Append(IntToText(n \div 10), Digits[(n % 10) + 1])

\* f"{month:02d}"
Pad2(n) == IF n < 10 THEN <<"0">> \o IntToText(n) ELSE IntToText(n)

(***************************************************************************)
(* Dates (datetime.date).                                                  *)
(***************************************************************************)
IsLeap(y) == (y % 4 = 0 /\ y % 100 # 0) \/ y % 400 = 0

DaysInMonth(y, m) ==
    IF m = 2 THEN (IF IsLeap(y) THEN 29 ELSE 28)
    ELSE IF m \in {4, 6, 9, 11} THEN 30 ELSE 31

\* dt.date(y, m, d) does not raise
ValidDate(y, m, d) ==
    /\ y \in 1..9999
    /\ m \in 1..12
    /\ d \in 1..DaysInMonth(y, m)

\* a <= b on dates: DateBefore with the comparison off by one day
DateBeforeOrSame(a, b) ==
    \/ a.y < b.y
    \/ a.y = b.y /\ a.m < b.m
    \/ a.y = b.y /\ a.m = b.m /\ a.d <= b.d

\* a < b on dates
DateBefore(a, b) ==
    \/ a.y < b.y
    \/ a.y = b.y /\ a.m < b.m
    \/ a.y = b.y /\ a.m = b.m /\ a.d < b.d

(***************************************************************************)
(* month_range                                                             *)
(***************************************************************************)
\* the inner loop over the months of one year, with its break
RECURSIVE MonthsFrom(_, _, _)
MonthsFrom(year, month, now) ==
    IF month > 12 \/ (year = now.y /\ month > now.m) THEN <<>>
    ELSE <<IntToText(year) \o Pad2(month)>> \o MonthsFrom(year, month + 1, now)

RECURSIVE YearsFrom(_, _)
YearsFrom(year, now) ==
    IF year > now.y THEN <<>>
    ELSE MonthsFrom(year, 1, now) \o YearsFrom(year + 1, now)

month_range(startYear, now) == YearsFrom(startYear, now)

(***************************************************************************)
(* find_existing_zip: the constants                                        *)
(***************************************************************************)
BASE_URL == "https://contrataciondelestado.es/sindicacion/sindicacion_643/"

\* the part of each pattern before {ym}; every pattern ends in .zip
ZIP_PATTERNS ==
    << "licitacionesPerfilesContratanteCompleto3_",
       "licitacionesPerfilesContratanteCompleta3_",
       "licitacionesPerfilesContratanteCompleto_",
       "licitacionesPerfilesContratanteCompleta_" >>

\* urljoin(BASE_URL, pattern.format(ym=ym))
ZipUrl(p, ym) == <<BASE_URL, ZIP_PATTERNS[p]>> \o ym \o <<".zip">>

\* what a HEAD request can answer: a status code, or it raises
ProbeAnswers == {"200", "404", "503", "raise"}

\* ProbeFound taking any answered request for a hit
ProbeFoundAny(answer) == answer # "raise"

\* r.status_code == 200
ProbeFound(answer) == answer = "200"

(***************************************************************************)
(* parse_entry                                                             *)
(***************************************************************************)
\* entry.find("a:link") found nothing
NoLink == <<"<NoLink>">>

\* extract_text: the element's text stripped; "" when the element or its
\* text is missing
extract_text(t) == IF t = None THEN <<>> ELSE Strip(t)

\* ResolveId with the link tried before the label
ResolveIdLinkFirst(ident, enlace, titulo) == PyOr(PyOr(enlace, ident), titulo)

\* ident = rex(...) or enlace or titulo
ResolveId(ident, enlace, titulo) == PyOr(PyOr(ident, enlace), titulo)

\* An entry is [title, link, summary]: title and summary are a text or None
\* (no such element), link is NoLink, None (a link without href) or a text.
\* importe, cpv, tipo, ccaa, provincia and fechaPublicacion are extracted
\* like organo and read by nothing in this script; they are left out.
parse_entry(entry) ==
    LET titulo == extract_text(entry.title)
        enlace == IF entry.link = NoLink THEN <<>> ELSE entry.link
        summary == extract_text(entry.summary)
    IN  [ id |-> ResolveId(RexLine(summary, LblIdent), enlace, titulo),
          titulo |-> titulo,
          organo |-> RexLine(summary, LblOrgano),
          estado |-> RexLine(summary, LblEstado),
          fechaLimite |-> RexDate(summary, LblLimite),
          enlace |-> enlace,
          fuente |-> <<"PLACSP">> ]

(***************************************************************************)
(* is_active                                                               *)
(***************************************************************************)
Anulada == <<"a", "n", "u", "l", "a", "d", "a">>
Suspend == <<"s", "u", "s", "p", "e", "n", "d">>

\* the deadline branch: TRUE when it returns False
DeadlinePassed(ffin, now) ==
    /\ Truthy(ffin)
    /\ Cardinality(DigitRunStarts(ffin)) >= 3
    /\ LET d == ToInt(DigitRun(ffin, 1))
           m == ToInt(DigitRun(ffin, 2))
           y == ToInt(DigitRun(ffin, 3))
       IN  /\ ValidDate(y, m, d)
           /\ DateBefore([y |-> y, m |-> m, d |-> d], now)

is_active(lic, now) ==
    LET estado == Lower(PyOr(lic.estado, <<>>))
    IN  IF Contains(estado, Anulada) \/ Contains(estado, Suspend) THEN FALSE
        ELSE IF DeadlinePassed(PyOr(lic.fechaLimite, <<>>), now) THEN FALSE
        ELSE TRUE

(***************************************************************************)
(* The feed entries the archives of the model are made of.                 *)
(***************************************************************************)
\* Identificador X, open, deadline 29/02/2024
EntryX1 ==
    [ title |-> <<"t">>, link |-> <<"u">>,
      summary |-> << LblIdent, " ", "X", "\n",
                     LblEstado, " ", "A", "b", "i", "e", "r", "t", "a", "\n",
                     LblLimite, " ", "2", "9", "/", "0", "2", "/", "2", "0", "2", "4" >> ]
\* the same Identificador, other fields: annulled, no deadline, other link
EntryX2 ==
    [ title |-> <<"t">>, link |-> <<"v">>,
      summary |-> << LblIdent, "X", " ", "\n",
                     LblEstado, " ", "A", "N", "U", "L", "A", "D", "A" >> ]
\* no Identificador label: the link is the id; deadline 31/01/2024
EntryLink ==
    [ title |-> <<"t">>, link |-> <<"u">>,
      summary |-> << LblLimite, " ", "3", "1", "/", "0", "1", "/", "2", "0", "2", "4" >> ]
\* no summary, a link element without href: the title is the id
EntryTitle ==
    [ title |-> <<" ", "t", " ">>, link |-> None, summary |-> None ]
\* a label with nothing but a tag after it, no link, no title: no id
EntryNoId ==
    [ title |-> None, link |-> NoLink,
      summary |-> << LblIdent, " ", "<", "b", ">" >> ]
\* the label's line is empty and the next line carries the status
EntryNextLine ==
    [ title |-> <<"t">>, link |-> <<"u">>,
      summary |-> << LblIdent, "\n",
                     LblEstado, " ", "S", "u", "s", "p", "e", "n", "d", "i", "d", "a" >> ]

RawEntries == {EntryX1, EntryX2, EntryLink, EntryTitle, EntryNoId, EntryNextLine}

\* parse_entry, tabulated over these entries
ParsedEntries == [e \in RawEntries |-> parse_entry(e)]

(***************************************************************************)
(* The state of one run of main(), of the files it writes, and the         *)
(* history the properties read.                                            *)
(***************************************************************************)
VARIABLES
    today,          \* dt.date.today()
    start_year,     \* LICITAI_START_YEAR
    active_only,    \* LICITAI_ACTIVE_ONLY
    pc,             \* where main() is
    months,         \* month_range(start_year), the list the loop walks
    idx,            \* position of ym in months
    pat,            \* position of pattern in ZIP_PATTERNS (find_existing_zip)
    url,            \* the last value find_existing_zip returned
    pos,            \* entries the current feed document has yielded
    licitaciones,   \* the merge dictionary, in insertion order
    fullFile,       \* data/tenders.ndjson
    activeFile,     \* data/tenders-active.json
    attempted,      \* history: the tokens find_existing_zip was called with
    evt,            \* history: what the last step met, and whether it raised
    sighted,        \* history: id -> the last entry yielded with that id
    fullOpens,      \* history: open() calls of this run on tenders.ndjson
    activeOpens,    \* history: open() calls of this run on tenders-active.json
    failedWrite,    \* history: the write that raised
    run,            \* history: which run of the script this is
    prevFull,       \* history: tenders.ndjson as the previous run left it
    prevActive,     \* history: tenders-active.json as the previous run left it
    world,          \* the upstream answers per period, when they are fixed
    probeAns,       \* the upstream answer per pattern, when it is fixed
    cLic,           \* the record handed to is_active on its own
    cResult         \* what is_active returned for it

vars == << today, start_year, active_only, pc, months, idx, pat, url, pos,
           licitaciones, fullFile, activeFile, attempted, evt, sighted,
           fullOpens, activeOpens, failedWrite, run, prevFull, prevActive,
           world, probeAns, cLic, cResult >>

config == << today, start_year, active_only, world, probeAns, cLic >>
files == << fullFile, activeFile, fullOpens, activeOpens, failedWrite >>
lastRun == << run, prevFull, prevActive >>

NoFile == [exists |-> FALSE, data |-> <<>>]
NoEvt == [kind |-> "none", raised |-> FALSE]

Date(y, m, d) == [y |-> y, m |-> m, d |-> d]
Todays == {Date(2024, 1, 31), Date(2024, 2, 29)}
StartYears == {2024, 2025}

(***************************************************************************)
(* The merge dictionary.                                                   *)
(***************************************************************************)
Keys(d) == {d[i].id : i \in 1..Len(d)}

\* licitaciones[lic["id"]] = lic keeping the record that is already there
UpsertKeepFirst(d, lic) ==
    IF lic.id \in Keys(d) THEN d ELSE Append(d, lic)

\* licitaciones[lic["id"]] = lic: a key that exists keeps its place in the
\* order and takes the new record whole
Upsert(d, lic) ==
    IF lic.id \in Keys(d)
    THEN [i \in 1..Len(d) |-> IF d[i].id = lic.id THEN lic ELSE d[i]]
    ELSE Append(d, lic)

\* [lic for lic in all_lics if is_active(lic)] without the filter
ActiveLicsAll(lics, now) == lics

\* [lic for lic in all_lics if is_active(lic)]
RECURSIVE ActiveLics(_, _)
ActiveLics(lics, now) ==
    IF Len(lics) = 0 THEN <<>>
    ELSE LET rest == ActiveLics(Tail(lics), now)
         IN  IF is_active(Head(lics), now) THEN <<Head(lics)>> \o rest ELSE rest

(***************************************************************************)
(* main(): the loop over the periods.                                      *)
(***************************************************************************)
\* Advance leaving the loop after the first period
AdvanceFirstOnly(i, ms) ==
    /\ idx' = i
    /\ pos' = 0
    /\ IF i <= Len(ms) /\ i <= 1
       THEN /\ pc' = "probe"
            /\ pat' = 1
            /\ attempted' = Append(attempted, ms[i])
       ELSE /\ pc' = "write_full"
            /\ pat' = 0
            /\ attempted' = attempted

\* the for statement takes token i of ms and calls find_existing_zip with
\* it, or the list is exhausted and main() goes on to the outputs; the
\* generator of the period before, if any, is gone
Advance(i, ms) ==
    /\ idx' = i
    /\ pos' = 0
    /\ IF i <= Len(ms)
       THEN /\ pc' = "probe"
            /\ pat' = 1
            /\ attempted' = Append(attempted, ms[i])
       ELSE /\ pc' = "write_full"
            /\ pat' = 0
            /\ attempted' = attempted

\* the handler leaving the loop instead of going on
ExceptHandlerBreak(kind) ==
    /\ evt' = [kind |-> kind, raised |-> TRUE]
    /\ idx' = idx
    /\ pos' = 0
    /\ pc' = "write_full"
    /\ pat' = 0
    /\ attempted' = attempted

\* except Exception as exc: print(...); continue
ExceptHandler(kind) ==
    /\ evt' = [kind |-> kind, raised |-> TRUE]
    /\ Advance(idx + 1, months)

\* the body of the loop ends, or continue, without an exception
Continue(kind) ==
    /\ evt' = [kind |-> kind, raised |-> FALSE]
    /\ Advance(idx + 1, months)

\* main() up to the for statement
MainStart ==
    /\ pc = "start"
    /\ licitaciones' = <<>>
    /\ months' = month_range(start_year, today)
    /\ Advance(1, months')
    /\ evt' = NoEvt
    /\ UNCHANGED << config, files, lastRun, url, sighted, cResult >>

\* find_existing_zip: one turn of its loop, the HEAD request answering
\* `answer`
Probe(answer) ==
    /\ pc = "probe"
    /\ IF ProbeFound(answer)
       THEN /\ url' = ZipUrl(pat, months[idx])
            /\ pc' = "fetch"
            /\ evt' = NoEvt
            /\ UNCHANGED << idx, pat, pos, attempted >>
       ELSE IF pat < Len(ZIP_PATTERNS)
       THEN /\ pat' = pat + 1
            /\ evt' = NoEvt
            /\ UNCHANGED << url, pc, idx, pos, attempted >>
       ELSE /\ url' = None
            /\ Continue("not_found")
    /\ UNCHANGED << config, files, lastRun, months, licitaciones,
                    sighted, cResult >>

FetchKinds == {"fetch_fails", "bad_zip", "no_feed", "bad_feed", "ok"}

\* requests.get, raise_for_status, and iter_atom_entries_from_zip up to its
\* first yield: the request fails, the bytes are no archive, the archive has
\* no feed document, the document does not parse, or the iteration starts
Fetch(kind) ==
    /\ pc = "fetch"
    /\ IF kind = "ok"
       THEN /\ pc' = "iter1"
            /\ pos' = 0
            /\ evt' = NoEvt
            /\ UNCHANGED << idx, pat, attempted >>
       ELSE IF kind = "no_feed"
       THEN Continue(kind)
       ELSE ExceptHandler(kind)
    /\ UNCHANGED << config, files, lastRun, months, url, licitaciones,
                    sighted, cResult >>

\* the body of the inner for statement for one entry
Merge(e) ==
    LET lic == ParsedEntries[e]
    IN  IF ~Truthy(lic.id)
        THEN /\ evt' = [kind |-> "dropped", raised |-> FALSE]
             /\ UNCHANGED << licitaciones, sighted >>
        ELSE /\ evt' = [kind |-> IF lic.id \in Keys(licitaciones)
                                 THEN "replaced" ELSE "inserted",
                        raised |-> FALSE]
             /\ licitaciones' = Upsert(licitaciones, lic)
             /\ sighted' = [k \in DOMAIN sighted \cup {lic.id} |->
                               IF k = lic.id THEN e ELSE sighted[k]]

\* the first document yields entry e
Yield1(e) ==
    /\ pc = "iter1"
    /\ pos < MaxEntries
    /\ pos' = pos + 1
    /\ Merge(e)
    /\ UNCHANGED << config, files, lastRun, pc, months, idx, pat, url,
                    attempted, cResult >>

NextKinds == {"no_next", "missing", "bad_page", "ok"}

\* NextPageRaises with no except KeyError around the next page
NextPageRaisesAlways(kind) == kind \in {"bad_page", "missing"}

\* z.open(next_href) raises KeyError for a name the archive does not have,
\* which is caught; ET.fromstring(next_content) raises ParseError for a
\* page that is no feed, which is not
NextPageRaises(kind) == kind = "bad_page"

\* the first document is exhausted: there is no next link (or it has no
\* href), its target is missing from the archive, is no feed, or is read
EndDoc1(kind) ==
    /\ pc = "iter1"
    /\ IF kind = "ok"
       THEN /\ pc' = "iter2"
            /\ pos' = 0
            /\ evt' = [kind |-> kind, raised |-> FALSE]
            /\ UNCHANGED << idx, pat, attempted >>
       ELSE IF NextPageRaises(kind)
       THEN ExceptHandler(kind)
       ELSE Continue(kind)
    /\ UNCHANGED << config, files, lastRun, months, url, licitaciones,
                    sighted, cResult >>

\* the next page yields entry e
Yield2(e) ==
    /\ pc = "iter2"
    /\ pos < MaxEntries
    /\ pos' = pos + 1
    /\ Merge(e)
    /\ UNCHANGED << config, files, lastRun, pc, months, idx, pat, url,
                    attempted, cResult >>

\* the next page is exhausted; its own next link is not followed
EndDoc2 ==
    /\ pc = "iter2"
    /\ Continue("end")
    /\ UNCHANGED << config, files, lastRun, months, url, licitaciones,
                    sighted, cResult >>

(***************************************************************************)
(* main(): the outputs.                                                    *)
(***************************************************************************)
WriteOutcomes == {"ok", "open_fails", "write_fails"}

\* open(path, "a"): what is there stays
OpenAppend(old) == old.data

\* open(path, "w"): the file is created or emptied
OpenWrite(old) == <<>>

\* what a write leaves in the file: with "ok" all of lines, with
\* "write_fails" the first k of them, with "open_fails" what was there
Written(old, lines, outcome, k) ==
    IF outcome = "open_fails" THEN old
    ELSE [ exists |-> TRUE,
           data |-> OpenWrite(old) \o
                    (IF outcome = "ok" THEN lines ELSE SubSeq(lines, 1, k)) ]

\* a failed write of tenders.ndjson that lets main() go on
FullWriteFailsOn == IF active_only THEN "write_active" ELSE "done"

\* an exception of the with statement of tenders.ndjson is caught nowhere
\* and ends main()
FullWriteFails == "fatal"

\* with open(ndjson_path, "w") as f: for lic in all_lics: f.write(...)
WriteFull(outcome, k) ==
    /\ pc = "write_full"
    /\ k \in 0..Len(licitaciones)
    /\ outcome # "write_fails" => k = 0
    /\ fullOpens' = fullOpens + 1
    /\ fullFile' = Written(fullFile, licitaciones, outcome, k)
    /\ IF outcome = "ok"
       THEN /\ pc' = IF active_only THEN "write_active" ELSE "done"
            /\ failedWrite' = failedWrite
       ELSE /\ pc' = FullWriteFails
            /\ failedWrite' = "full"
    /\ evt' = NoEvt
    /\ UNCHANGED << config, lastRun, months, idx, pat, url, pos, licitaciones,
                    activeFile, activeOpens, attempted, sighted, cResult >>

\* if active_only: ... json.dump(active_lics, f)
WriteActive(outcome, k) ==
    /\ pc = "write_active"
    /\ LET active_lics == ActiveLics(licitaciones, today)
       IN  /\ k \in 0..Len(active_lics)
           /\ outcome # "write_fails" => k = 0
           /\ activeFile' = Written(activeFile, active_lics, outcome, k)
    /\ activeOpens' = activeOpens + 1
    /\ IF outcome = "ok"
       THEN /\ pc' = "done"
            /\ failedWrite' = failedWrite
       ELSE /\ pc' = "fatal"
            /\ failedWrite' = "active"
    /\ evt' = NoEvt
    /\ UNCHANGED << config, lastRun, months, idx, pat, url, pos, licitaciones,
                    fullFile, fullOpens, attempted, sighted, cResult >>

(***************************************************************************)
(* One run, the upstream answering anything at every step.                 *)
(***************************************************************************)
InitRun ==
    /\ months = <<>>
    /\ idx = 0
    /\ pat = 0
    /\ url = None
    /\ pos = 0
    /\ licitaciones = <<>>
    /\ fullFile = NoFile
    /\ activeFile = NoFile
    /\ attempted = <<>>
    /\ evt = NoEvt
    /\ sighted = <<>>
    /\ fullOpens = 0
    /\ activeOpens = 0
    /\ failedWrite = "none"
    /\ run = 1
    /\ prevFull = NoFile
    /\ prevActive = NoFile
    /\ cResult = "unset"

NoLic == [estado |-> <<>>, fechaLimite |-> <<>>]

Init ==
    /\ InitRun
    /\ pc = "start"
    /\ today \in Todays
    /\ start_year \in StartYears
    /\ active_only \in BOOLEAN
    /\ world = <<>>
    /\ probeAns = <<>>
    /\ cLic = NoLic

Next ==
    \/ MainStart
    \/ \E a \in ProbeAnswers : Probe(a)
    \/ \E k \in FetchKinds : Fetch(k)
    \/ \E e \in RawEntries : Yield1(e)
    \/ \E k \in NextKinds : EndDoc1(k)
    \/ \E e \in RawEntries : Yield2(e)
    \/ EndDoc2
    \/ \E o \in WriteOutcomes, k \in 0..1 : WriteFull(o, k)
    \/ \E o \in WriteOutcomes, k \in 0..1 : WriteActive(o, k)

Spec == Init /\ [][Next]_vars

(***************************************************************************)
(* The loop alone: any start year, few entries.                            *)
(***************************************************************************)
LoopStartYears == {2023, 2024, 2025}
LoopEntries == {EntryX1, EntryNoId}

InitLoop ==
    /\ InitRun
    /\ pc = "start"
    /\ today \in Todays
    /\ start_year \in LoopStartYears
    /\ active_only = TRUE
    /\ world = <<>>
    /\ probeAns = <<>>
    /\ cLic = NoLic

NextLoop ==
    \/ MainStart
    \/ \E a \in ProbeAnswers : Probe(a)
    \/ \E k \in FetchKinds : Fetch(k)
    \/ \E e \in LoopEntries : Yield1(e)
    \/ \E k \in NextKinds : EndDoc1(k)
    \/ \E e \in LoopEntries : Yield2(e)
    \/ EndDoc2

SpecLoop == InitLoop /\ [][NextLoop]_vars

(***************************************************************************)
(* find_existing_zip alone: the answer of every pattern is fixed.          *)
(***************************************************************************)
InitLocate ==
    /\ InitRun
    /\ pc = "start"
    /\ today \in Todays
    /\ start_year \in LoopStartYears
    /\ active_only = TRUE
    /\ world = <<>>
    /\ probeAns \in [1..Len(ZIP_PATTERNS) -> ProbeAnswers]
    /\ cLic = NoLic

ProbeFixed ==
    /\ pc = "probe"
    /\ Probe(probeAns[pat])

NextLocate ==
    \/ MainStart
    \/ ProbeFixed

SpecLocate == InitLocate /\ [][NextLocate]_vars

(***************************************************************************)
(* is_active alone, on any record and date.                                *)
(***************************************************************************)
ClassifyTodays == {Date(2024, 2, 29), Date(2024, 3, 1), Date(2023, 12, 31)}

ClassifyEstados ==
    { None, <<>>,
      <<"A", "b", "i", "e", "r", "t", "a">>,
      <<"A", "N", "U", "L", "A", "D", "A">>,
      <<"a", "n", "u", "l", "a", "d">>,
      <<"N", "o", " ", "s", "u", "s", "p", "e", "n", "d", "i", "d", "a">>,
      <<"S", "u", "s", "p", "e", "n", "D", "i", "d", "a">> }

DayTexts == {<<"2", "9">>, <<"1">>, <<"0", "0">>, <<"3", "1">>}
MonthTexts == {<<"0", "2">>, <<"3">>, <<"1", "3">>, <<"1", "2">>}
YearTexts == {<<"2", "0", "2", "4">>, <<"2", "0", "2", "3">>, <<"2", "4">>,
              <<"0">>, <<"1", "0", "0", "0", "0">>}
Separators == {"/", "-"}
TimeTexts == {<<>>, <<" ", "1", "0", ":", "0", "0">>}

ClassifyDeadlines ==
    { None, <<>>,
      <<"p", "e", "n", "d", "i", "e", "n", "t", "e">>,
      <<"2", "8", "/", "0", "2">>,
      <<"2", "0", "2", "4", "-", "0", "2", "-", "2", "8">> }
    \cup { d \o <<sep>> \o m \o <<sep>> \o y \o t :
             d \in DayTexts, m \in MonthTexts, y \in YearTexts,
             sep \in Separators, t \in TimeTexts }

InitClassify ==
    /\ InitRun
    /\ pc = "classify"
    /\ today \in ClassifyTodays
    /\ start_year \in StartYears
    /\ active_only = TRUE
    /\ world = <<>>
    /\ probeAns = <<>>
    /\ cLic \in [estado : ClassifyEstados, fechaLimite : ClassifyDeadlines]

\* one call is_active(lic)
Classify ==
    /\ pc = "classify"
    /\ cResult' = IF is_active(cLic, today) THEN "active" ELSE "inactive"
    /\ pc' = "classified"
    /\ UNCHANGED << config, files, lastRun, months, idx, pat, url, pos,
                    licitaciones, attempted, evt, sighted >>

NextClassify == Classify

SpecClassify == InitClassify /\ [][NextClassify]_vars

(***************************************************************************)
(* Two runs of the script, one after the other, against the same upstream: *)
(* the answers of every period are fixed in world.                         *)
(***************************************************************************)
Answer(probe, fetch, first, next, second) ==
    [probe |-> probe, fetch |-> fetch, first |-> first, next |-> next,
     second |-> second]

PeriodAnswers ==
    { Answer(<<"404", "raise", "503", "404">>, "ok", <<>>, "no_next", <<>>),
      Answer(<<"200", "200", "200", "200">>, "fetch_fails", <<>>, "no_next", <<>>),
      Answer(<<"raise", "404", "200", "200">>, "ok",
             <<EntryX1, EntryLink>>, "ok", <<EntryX2>>),
      Answer(<<"404", "200", "raise", "200">>, "ok",
             <<EntryTitle, EntryNoId>>, "missing", <<>>),
      Answer(<<"503", "404", "raise", "200">>, "ok",
             <<EntryX2, EntryNextLine>>, "bad_page", <<>>),
      Answer(<<"200", "404", "404", "404">>, "ok",
             <<EntryX2>>, "ok", <<EntryX1, EntryLink>>) }

InitTwoRuns ==
    /\ InitRun
    /\ pc = "start"
    /\ today \in Todays
    /\ start_year \in StartYears
    /\ active_only \in BOOLEAN
    /\ world \in [1..Len(month_range(start_year, today)) -> PeriodAnswers]
    /\ probeAns = <<>>
    /\ cLic = NoLic

\* the script is started again: the files stay, the new process keeps
\* nothing else
Restart ==
    /\ pc = "done"
    /\ run = 1
    /\ run' = 2
    /\ prevFull' = fullFile
    /\ prevActive' = activeFile
    /\ pc' = "start"
    /\ attempted' = <<>>
    /\ sighted' = <<>>
    /\ evt' = NoEvt
    /\ fullOpens' = 0
    /\ activeOpens' = 0
    /\ failedWrite' = "none"
    /\ UNCHANGED << config, months, idx, pat, url, pos, licitaciones,
                    fullFile, activeFile, cResult >>

ProbeWorld ==
    /\ pc = "probe"
    /\ Probe(world[idx].probe[pat])

FetchWorld ==
    /\ pc = "fetch"
    /\ Fetch(world[idx].fetch)

Yield1World ==
    /\ pc = "iter1"
    /\ pos < Len(world[idx].first)
    /\ Yield1(world[idx].first[pos + 1])

EndDoc1World ==
    /\ pc = "iter1"
    /\ pos = Len(world[idx].first)
    /\ EndDoc1(world[idx].next)

Yield2World ==
    /\ pc = "iter2"
    /\ pos < Len(world[idx].second)
    /\ Yield2(world[idx].second[pos + 1])

EndDoc2World ==
    /\ pc = "iter2"
    /\ pos = Len(world[idx].second)
    /\ EndDoc2

NextTwoRuns ==
    \/ MainStart
    \/ ProbeWorld
    \/ FetchWorld
    \/ Yield1World
    \/ EndDoc1World
    \/ Yield2World
    \/ EndDoc2World
    \/ \E o \in WriteOutcomes, k \in 0..1 : WriteFull(o, k)
    \/ \E o \in WriteOutcomes, k \in 0..1 : WriteActive(o, k)
    \/ Restart

SpecTwoRuns == InitTwoRuns /\ [][NextTwoRuns]_vars

(***************************************************************************)
(* Properties.                                                             *)
(***************************************************************************)
InLoop == pc \in {"probe", "fetch", "iter1", "iter2"}
AfterLoop == pc \in {"write_full", "write_active", "done", "fatal"}

Min(a, b) == IF a < b THEN a ELSE b

\* C1: the merge dictionary holds at most one record per id, and the record
\* of every id is, whole, the one parsed from the last entry yielded with
\* that id, in the order the entries were processed.
C1_MergeHoldsLastSighting ==
    pc # "start" =>
        /\ \A i, j \in 1..Len(licitaciones) :
               licitaciones[i].id = licitaciones[j].id => i = j
        /\ Keys(licitaciones) = DOMAIN sighted
        /\ \A i \in 1..Len(licitaciones) :
               licitaciones[i] = ParsedEntries[sighted[licitaciones[i].id]]

\* an entry of the second period has just replaced the record of its id,
\* which keeps the first place in the dictionary
C1_Witness ==
    /\ evt.kind = "replaced"
    /\ idx = 2
    /\ Len(licitaciones) >= 2
    /\ licitaciones[1] = ParsedEntries[EntryX2]
    /\ sighted[<<"X">>] = EntryX2

\* the tokens from January of startYear to the month of now, by counting
\* months
TokenAt(startYear, i) ==
    LET y == startYear + ((i - 1) \div 12)
        m == ((i - 1) % 12) + 1
    IN  << Digits[((y \div 1000) % 10) + 1], Digits[((y \div 100) % 10) + 1],
           Digits[((y \div 10) % 10) + 1], Digits[(y % 10) + 1],
           Digits[(m \div 10) + 1], Digits[(m % 10) + 1] >>
ExpectedTokens(startYear, now) ==
    LET n == IF startYear > now.y THEN 0 ELSE (now.y - startYear) * 12 + now.m
    IN  [i \in 1..n |-> TokenAt(startYear, i)]

\* C2: find_existing_zip is called once for every token of month_range, in
\* chronological order, and the loop is left only after the last token,
\* whatever was not found, failed or raised before.
C2_EveryPeriodAttempted ==
    LET expected == ExpectedTokens(start_year, today)
    IN  pc # "start" =>
            /\ months = expected
            /\ attempted = SubSeq(expected, 1, Min(idx, Len(expected)))
            /\ (InLoop => idx \in 1..Len(expected))
            /\ (AfterLoop => attempted = expected)

\* the period after one that raised is being probed, across the turn of
\* the year
C2_Witness ==
    /\ pc = "probe"
    /\ evt.raised
    /\ idx = 13
    /\ Len(months) = 14
    /\ Len(attempted) = 13

\* C3 as stated: a failed write of one artifact does not keep the write of
\* the other from being attempted, and the failure ends main().
C3_WritesIndependent ==
    /\ (failedWrite = "full" /\ active_only => activeOpens >= 1)
    /\ (failedWrite = "active" => fullOpens >= 1)
    /\ (failedWrite # "none" => pc = "fatal")

\* C3 amended: the full-history write comes first; when it fails main()
\* ends there and the active artifact is never opened; when the active
\* write fails the full-history artifact has been written whole.
C3_WritesInSequence ==
    /\ (failedWrite = "full" =>
            pc = "fatal" /\ fullOpens = 1 /\ activeOpens = 0
                         /\ activeFile = NoFile)
    /\ (failedWrite = "active" =>
            pc = "fatal" /\ fullOpens = 1 /\ activeOpens = 1
                         /\ fullFile = [exists |-> TRUE, data |-> licitaciones])
    /\ (pc = "fatal" => failedWrite # "none")

\* the full-history write failed with the toggle on and records to write
C3_Witness ==
    /\ failedWrite = "full"
    /\ active_only
    /\ Len(licitaciones) >= 1
    /\ pc = "fatal"

\* C4: while the loop over the periods runs no artifact has been opened or
\* written, and once one has been opened every period has been attempted.
C4_NoOutputBeforeLoopEnds ==
    /\ (pc = "start" \/ InLoop =>
            /\ fullOpens = 0 /\ activeOpens = 0
            /\ fullFile = NoFile /\ activeFile = NoFile)
    /\ (fullOpens + activeOpens > 0 =>
            /\ idx = Len(months) + 1
            /\ Len(attempted) = Len(months))

\* the last period is being read, records are merged, nothing is written
C4_Witness ==
    /\ pc = "iter2"
    /\ idx = 2
    /\ Len(months) = 2
    /\ Len(licitaciones) >= 2
    /\ fullFile = NoFile

\* the first non-empty of the label's value, the link's href and the title
FirstNonEmpty(cands) ==
    LET hits == {i \in 1..Len(cands) : cands[i] # None /\ cands[i] # <<>>}
    IN  IF hits = {} THEN <<>>
        ELSE cands[CHOOSE i \in hits : \A j \in hits : i <= j]
ClaimedId(e) ==
    FirstNonEmpty(<< RexLine(extract_text(e.summary), LblIdent),
                     IF e.link = NoLink THEN <<>> ELSE e.link,
                     extract_text(e.title) >>)

\* C5: the id of a parsed entry is the first non-empty of (Identificador
\* value, link href, title), for every entry there is (a fact of parse_entry
\* alone, evaluated where a run starts) and for every entry merged; no
\* record with an empty id is in the merge dictionary or in an artifact.
C5_IdResolution ==
    /\ (pc = "start" => \A e \in RawEntries : parse_entry(e).id = ClaimedId(e))
    /\ \A i \in 1..Len(licitaciones) : Truthy(licitaciones[i].id)
    /\ \A k \in DOMAIN sighted : ClaimedId(sighted[k]) = k
    /\ \A i \in 1..Len(fullFile.data) : Truthy(fullFile.data[i].id)
    /\ \A i \in 1..Len(activeFile.data) : Truthy(activeFile.data[i].id)

\* an entry without id has just been dropped; the dictionary holds a
\* record under a link and one under a title
C5_Witness ==
    /\ evt.kind = "dropped"
    /\ {<<"u">>, <<"t">>} \subseteq Keys(licitaciones)
    /\ Len(licitaciones) = 2

\* the status, lower-cased, has the word at some place
HasWord(e, w) ==
    \E i \in 1..(Len(e) - Len(w) + 1) :
        \A j \in 1..Len(w) : LowerChar(e[i + j - 1]) = w[j]

\* the integer groups of a text, left to right, by one scan
RECURSIVE IntGroups(_, _, _, _)
IntGroups(s, i, cur, open) ==
    IF i > Len(s) THEN (IF open THEN <<cur>> ELSE <<>>)
    ELSE IF IsDigit(s[i])
    THEN IntGroups(s, i + 1, 10 * cur + DigitVal(s[i]), TRUE)
    ELSE (IF open THEN <<cur>> ELSE <<>>) \o IntGroups(s, i + 1, 0, FALSE)

\* the proleptic Gregorian calendar by day numbers
MonthLengths(y) ==
    << 31, IF y % 4 = 0 /\ (y % 100 # 0 \/ y % 400 = 0) THEN 29 ELSE 28,
       31, 30, 31, 30, 31, 31, 30, 31, 30, 31 >>
RECURSIVE DaysBeforeMonth(_, _)
DaysBeforeMonth(y, m) ==
    IF m <= 1 THEN 0 ELSE DaysBeforeMonth(y, m - 1) + MonthLengths(y)[m - 1]
Ordinal(y, m, d) ==
    365 * (y - 1) + ((y - 1) \div 4) - ((y - 1) \div 100) + ((y - 1) \div 400)
    + DaysBeforeMonth(y, m) + d
IsCalendarDate(y, m, d) ==
    /\ 1 <= y /\ y <= 9999
    /\ 1 <= m /\ m <= 12
    /\ 1 <= d /\ d <= MonthLengths(y)[m]

ClaimedInactive(lic, now) ==
    LET e == IF lic.estado = None THEN <<>> ELSE lic.estado
        f == IF lic.fechaLimite = None THEN <<>> ELSE lic.fechaLimite
        g == IntGroups(f, 1, 0, FALSE)
    IN  \/ HasWord(e, Anulada)
        \/ HasWord(e, Suspend)
        \/ /\ Len(g) >= 3
           /\ IsCalendarDate(g[3], g[2], g[1])
           /\ Ordinal(g[3], g[2], g[1]) < Ordinal(now.y, now.m, now.d)

\* C6: is_active returns inactive exactly when the lower-cased status has
\* "anulada" or "suspend", or the first three integer groups of the
\* deadline, as day, month, year, are a calendar date before today.
C6_ActiveClassification ==
    cResult # "unset" =>
        /\ cResult \in {"active", "inactive"}
        /\ (cResult = "inactive") <=> ClaimedInactive(cLic, today)

\* a deadline that is today, with a status that excludes nothing: active
C6_Witness ==
    /\ cResult = "active"
    /\ today = Date(2024, 2, 29)
    /\ cLic.fechaLimite = <<"2", "9", "/", "0", "2", "/", "2", "0", "2", "4">>
    /\ cLic.estado = <<"A", "b", "i", "e", "r", "t", "a">>

\* the URL of the first pattern, in the order of ZIP_PATTERNS, that answers
\* 200; None when none does
ExpectedZip(ans, ym) ==
    LET hits == {p \in 1..Len(ZIP_PATTERNS) : ans[p] = "200"}
    IN  IF hits = {} THEN None
        ELSE LET p == CHOOSE q \in hits : \A r \in hits : q <= r
             IN  <<BASE_URL>> \o <<ZIP_PATTERNS[p]>> \o ym \o <<".zip">>

\* C7: find_existing_zip returns the URL of the first pattern of
\* ZIP_PATTERNS that answers 200, goes on to the next pattern after an
\* answer that is not 200 or a request that raises, and returns None only
\* when no pattern answers 200.
C7_FirstPatternWins ==
    /\ (pc = "probe" => \A p \in 1..(pat - 1) : probeAns[p] # "200")
    /\ (pc = "fetch" =>
            /\ url # None
            /\ url = ExpectedZip(probeAns, months[idx]))
    /\ (evt.kind = "not_found" =>
            /\ url = None
            /\ ExpectedZip(probeAns, months[idx - 1]) = None)

\* the third pattern is returned: the first raised, the second answered
\* 404, and the fourth would have answered 200 as well
C7_Witness ==
    /\ pc = "fetch"
    /\ probeAns = <<"raise", "404", "200", "200">>
    /\ url = <<BASE_URL, ZIP_PATTERNS[3], "2", "0", "2", "4", "0", "1", ".zip">>

\* C8 as stated: a next page that is missing from the archive or is no
\* feed ends the extractor without raising.
C8_NextPageSwallowed ==
    evt.kind \in {"missing", "bad_page"} => ~evt.raised

\* C8 amended: a next page that is missing ends the extractor without
\* raising; one that is no feed raises out of the extractor into the
\* handler of main().  Either way the step changes nothing in the merge
\* dictionary, the loop goes on with the next period, and a run that ends
\* has every record of the dictionary in the full-history artifact.
C8_NextPageFailureIsLocal ==
    /\ [](/\ (evt.kind = "missing" => ~evt.raised)
          /\ (evt.kind = "bad_page" => evt.raised)
          /\ (evt.kind \in {"missing", "bad_page"} =>
                  pc \in {"probe", "write_full"})
          /\ (pc = "done" => fullFile.data = licitaciones))
    /\ [][pc = "iter1" /\ pc' \notin {"iter1", "iter2"} =>
              licitaciones' = licitaciones /\ sighted' = sighted]_vars

\* the next page of the first period was no feed: the two entries of the
\* first document are merged and the second period is probed
C8_Witness ==
    /\ evt.kind = "bad_page"
    /\ evt.raised
    /\ Len(licitaciones) = 2
    /\ pc = "probe"
    /\ idx = 2

\* C9: a second run with the same start year, toggle, date and upstream
\* answers leaves both artifacts as the first run left them.
C9_RunsAgree ==
    run = 2 /\ pc = "done" =>
        /\ fullFile = prevFull
        /\ activeFile = prevActive

\* the second run has ended; the artifacts hold records, and the active
\* one fewer than the full one
C9_Witness ==
    /\ run = 2
    /\ pc = "done"
    /\ active_only
    /\ Len(fullFile.data) >= 3
    /\ Len(activeFile.data) >= 1
    /\ Len(activeFile.data) < Len(fullFile.data)

\* C10: with the toggle on, the active artifact of a run that ends holds
\* exactly the records of the merge dictionary for which is_active holds,
\* in the order of the full-history artifact and each id once; with the
\* toggle off the active artifact is never opened.
C10_ActiveArtifact ==
    /\ (pc = "done" /\ active_only =>
            /\ activeOpens = 1
            /\ activeFile.exists
            /\ activeFile.data =
                   SelectSeq(fullFile.data, LAMBDA r : is_active(r, today))
            /\ fullFile.data = licitaciones
            /\ \A i, j \in 1..Len(activeFile.data) :
                   activeFile.data[i].id = activeFile.data[j].id => i = j)
    /\ (~active_only => activeOpens = 0 /\ activeFile = NoFile)

\* a run with the toggle on has ended with some records active, some not
C10_Witness ==
    /\ pc = "done"
    /\ active_only
    /\ Len(activeFile.data) >= 2
    /\ Len(activeFile.data) < Len(fullFile.data)

====
